---- MODULE Spec2Model ----
(***************************************************************************)
(* Model of the batch sampler of Scripts/generate_training_data.py: main() *)
(* drives the OpenDSS engine through number_of_simulations scenarios, each *)
(* one a reset, a random selection, random percentage changes, one solve   *)
(* and (on convergence) one appended row; the rows are saved as a table.   *)
(*                                                                         *)
(* Powers (kW, kvar) are held in hundredths of a unit, so that a           *)
(* percentage change of a whole-unit value is an exact integer:            *)
(*   x * (1 + pct / 100)  is  (x * (100 + pct)) \div 100.                  *)
(* Voltages are held in hundredths of a per-unit.                          *)
(***************************************************************************)
EXTENDS Integers, Sequences, FiniteSets, TLC

VARIABLES
    pc,                                  \* position of main()
    circuit,                             \* the compiled circuit: names of loads, generators, buses
    dssLoads,                            \* engine state: load name -> [kW, kvar]
    dssGens,                             \* engine state: generator name -> [kW, kvar]
    number_of_simulations,
    percentage_of_loads_to_change,
    percentage_of_generators_to_change,
    original_loads,                      \* dict: load name -> [kW, kvar]
    original_gens,                       \* dict: generator name -> [kW, kvar]
    number_of_loads_to_change,
    number_of_generators_to_change,
    i,                                   \* scenarios completed (the loop variable of main)
    selected_loads,
    selected_gens,
    j,                                   \* components of the running for loop already modified
    applied,                             \* the modify_* calls of the running scenario, in order
    features,                            \* result of collect_data_for_ml (None or a dict)
    labels,
    all_data,                            \* list of rows (dicts)
    table,                               \* the saved DataFrame: None until saved
    solve_log,                           \* what the engine was asked to solve, per scenario
    stdout,                              \* the lines printed so far
    fetch_data,                          \* return value of solve_and_fetch_results
    inputs,                              \* what the user typed at the input() prompts
    load_values,                         \* BusEditor: the committed load values
    temp_changes,                        \* BusEditor: the staged changes
    load_search,                         \* BusEditor: currentText() of the dropdown
    kw_label,                            \* BusEditor: the displayed kw, in hundredths
    kvar_label,                          \* BusEditor: the displayed kvar, in hundredths
    bus_coords,                          \* the buses that have map coordinates, in order
    given_voltages,                      \* the voltages handed to add_pu_feedback_layer
    pu_feedback                          \* the "PU Feedback" layer last built

vars == << pc, circuit, dssLoads, dssGens, number_of_simulations,
           percentage_of_loads_to_change, percentage_of_generators_to_change,
           original_loads, original_gens, number_of_loads_to_change,
           number_of_generators_to_change, i, selected_loads, selected_gens, j,
           applied, features, labels, all_data, table, solve_log, stdout,
           fetch_data, inputs, load_values, temp_changes, load_search, kw_label,
           kvar_label, bus_coords, given_voltages, pu_feedback >>

\* the variables of main() of generate_training_data.py alone
batchVars == << number_of_simulations, percentage_of_loads_to_change,
                percentage_of_generators_to_change, original_loads, original_gens,
                number_of_loads_to_change, number_of_generators_to_change, i,
                selected_loads, selected_gens, j, applied, all_data >>

\* the variables of the other entry points and of the map editor
toolVars == << fetch_data, inputs, load_values, temp_changes, load_search, kw_label,
               kvar_label, bus_coords, given_voltages, pu_feedback >>

(***************************************************************************)
(* Bounds of the model.                                                    *)
(***************************************************************************)
\* largest number_of_simulations, for runs that change one load per scenario
MaxSims == 2
\* largest number_of_simulations, for runs that change several loads per scenario
MaxSimsDense == 1

None == "None"

Max(a, b) == IF a >= b THEN a ELSE b

Range(s) == { s[n] : n \in 1..Len(s) }

(***************************************************************************)
(* Python dicts: insertion-ordered sequences of <<key, value>> pairs.      *)
(***************************************************************************)
DictKeys(d) == [ n \in 1..Len(d) |-> d[n][1] ]

DictHas(d, k) == \E n \in 1..Len(d) : d[n][1] = k

DictGet(d, k) == d[CHOOSE n \in 1..Len(d) : d[n][1] = k][2]

\* d[k] = v: an existing key keeps its position, a new key goes last
DictSet(d, k, v) ==
    IF DictHas(d, k)
    THEN [ n \in 1..Len(d) |-> IF d[n][1] = k THEN << k, v >> ELSE d[n] ]
    ELSE Append(d, << k, v >>)

RECURSIVE DictUpdate(_, _)
\* {**a, **b}: a, then each item of b set in order
DictUpdate(a, b) ==
    IF b = << >> THEN a
    ELSE DictUpdate(DictSet(a, b[1][1], b[1][2]), Tail(b))

(***************************************************************************)
(* The circuit files the engine may be given (FILE_PATH) and the values    *)
(* their loads and generators compile to.                                  *)
(***************************************************************************)
Circuits ==
    { [loads |-> << "L1", "L2" >>, gens |-> << "G1" >>, buses |-> << "B1", "B2" >>],
      [loads |-> << "L1" >>, gens |-> << "G1" >>, buses |-> << "B1" >>],
      [loads |-> << "L1" >>, gens |-> << >>, buses |-> << "B1" >>] }

CompiledLoads ==
    ("L1" :> [kW |-> 1000, kvar |-> 200]) @@ ("L2" :> [kW |-> 2000, kvar |-> 400])

CompiledGens ==
    ("G1" :> [kW |-> 4000, kvar |-> 800])

\* the circuit of the end-to-end example: four loads, one bus, no generator
ExampleCircuit ==
    [loads |-> << "L1", "L2", "L3", "L4" >>, gens |-> << >>, buses |-> << "B1" >>]

\* the loads of the example compile to 10 kW, 2 kvar each
ExampleLoads == [n \in { "L1", "L2", "L3", "L4" } |-> [kW |-> 1000, kvar |-> 200]]

\* what compiling circuit c leaves in the engine's loads
CompiledLoadsOf(c) == IF c = ExampleCircuit THEN ExampleLoads ELSE CompiledLoads

\* percentage_of_loads_to_change, percentage_of_generators_to_change settings
LoadPercentages == { 80, 100, 150 }

GenPercentages == { 30, 200 }

\* randomization ranges of main(), in percent
load_kw_range == << -50, 50 >>

load_kvar_range == << -10, 10 >>

gen_kw_range == << -50, 50 >>

gen_kvar_range == << -10, 10 >>

(***************************************************************************)
(* The engine's collections: First/Next walk the names in order and        *)
(* return the 1-based index of the active element, 0 past the end.         *)
(***************************************************************************)
First(names) == IF Len(names) > 0 THEN 1 ELSE 0

Next_(names, idx) == IF idx < Len(names) THEN idx + 1 ELSE 0

\* AllBusVmagPu after a solve: one magnitude per bus, a fixed profile
AllBusVmagPu(buses) == [n \in 1..Len(buses) |-> 101 - n]

\* the outcomes a solve may report: Converged, and the bus voltages
SolveOutcomes(buses) ==
    { [converged |-> c, voltages |-> AllBusVmagPu(buses)] : c \in BOOLEAN }

(***************************************************************************)
(* The random module.                                                      *)
(***************************************************************************)
\* random.sample(population, k) raises ValueError for k outside 0..len
SampleRaises(population, k) == k > Len(population) \/ k < 0

\* random.choices(population, k=k): positions may repeat
SampleWithReplacement(population, k) ==
    { [n \in 1..k |-> population[p[n]]] : p \in [1..k -> 1..Len(population)] }

\* random.sample(population, k): k elements at pairwise distinct positions
Sample(population, k) ==
    { [n \in 1..k |-> population[p[n]]] :
        p \in { q \in [1..k -> 1..Len(population)] :
                  \A a, b \in 1..k : a /= b => q[a] /= q[b] } }

\* random.uniform(a, b): a value of [a, b]; the model draws the two ends
Uniform(range) == { range[1], range[2] }

(***************************************************************************)
(* The functions of generate_training_data.py.                             *)
(***************************************************************************)
\* x *= 1 + pct / 100
Scale(x, pct) == (x * (100 + pct)) \div 100

\* modify_load_parameters scaling kvar by the kW percentage
modify_load_kvar_by_kw(dss, load_name, kw_pct_change, kvar_pct_change) ==
    [dss EXCEPT ![load_name] = [kW   |-> (@.kW * (100 + kw_pct_change)) \div 100,
                                kvar |-> (@.kvar * (100 + kw_pct_change)) \div 100]]

\* main() always passes both percentages, so the "is not None" tests pass
modify_load_parameters(dss, load_name, kw_pct_change, kvar_pct_change) ==
    [dss EXCEPT ![load_name] = [kW   |-> Scale(@.kW, kw_pct_change),
                                kvar |-> Scale(@.kvar, kvar_pct_change)]]

modify_generator_parameters(dss, gen_name, kw_pct_change, kvar_pct_change) ==
    [dss EXCEPT ![gen_name] = [kW   |-> Scale(@.kW, kw_pct_change),
                               kvar |-> Scale(@.kvar, kvar_pct_change)]]

RECURSIVE StoreFrom(_, _, _, _)
\* the while loop of store_original_parameters, from the active index idx
StoreFrom(names, dss, idx, acc) ==
    IF idx > 0
    THEN StoreFrom(names, dss, Next_(names, idx),
                   DictSet(acc, names[idx],
                           [kW |-> dss[names[idx]].kW, kvar |-> dss[names[idx]].kvar]))
    ELSE acc

\* store_original_parameters starting its walk at Next instead of First
store_from_second(names, dss) == StoreFrom(names, dss, Next_(names, First(names)), << >>)

store_original_parameters(names, dss) == StoreFrom(names, dss, First(names), << >>)

RECURSIVE reset_kW_only(_, _)
\* reset_to_original_parameters without its "kvar = params[kvar]" lines
reset_kW_only(dss, original) ==
    IF original = << >> THEN dss
    ELSE reset_kW_only(
             [dss EXCEPT ![original[1][1]] = [kW |-> original[1][2].kW, kvar |-> @.kvar]],
             Tail(original))

\* reset_to_original_parameters looping over all items but the last
reset_but_last(dss, original) ==
    [n \in DOMAIN dss |->
        IF \E m \in 1..(Len(original) - 1) : original[m][1] = n
        THEN original[CHOOSE m \in 1..(Len(original) - 1) : original[m][1] = n][2]
        ELSE dss[n]]

RECURSIVE reset_to_original_parameters(_, _)
\* one of the two for loops of reset_to_original_parameters
reset_to_original_parameters(dss, original) ==
    IF original = << >> THEN dss
    ELSE reset_to_original_parameters(
             [dss EXCEPT ![original[1][1]] =
                 [kW |-> original[1][2].kW, kvar |-> original[1][2].kvar]],
             Tail(original))

\* Python's round(num / den) for num, den >= 0: to nearest, a half to the even side
Round(num, den) ==
    LET q == num \div den
        r == num % den
    IN  IF 2 * r < den THEN q
        ELSE IF 2 * r > den THEN q + 1
        ELSE IF q % 2 = 0 THEN q ELSE q + 1

\* max(1, round(...)) in place of max(1, int(...))
NumberToChangeRounded(percentage, total) == Max(1, Round(percentage * total, 100))

\* int(...) without the max(1, ...)
NumberToChangeNoFloor(percentage, total) == (percentage * total) \div 100

\* max(1, int((percentage / 100) * total))
NumberToChange(percentage, total) == Max(1, (percentage * total) \div 100)

RECURSIVE CollectFrom(_, _, _, _, _)
\* a while loop of collect_data_for_ml over loads ("load") or generators ("gen")
CollectFrom(prefix, names, dss, idx, acc) ==
    IF idx > 0
    THEN CollectFrom(prefix, names, dss, Next_(names, idx),
             DictSet(DictSet(acc, prefix \o "_" \o names[idx] \o "_kW", dss[names[idx]].kW),
                     prefix \o "_" \o names[idx] \o "_kvar", dss[names[idx]].kvar))
    ELSE acc

\* collect_data_for_ml keeping only the components away from their compiled values
CollectFeaturesChangedOnly(c, loads, gens) ==
    LET changedLoads == SelectSeq(c.loads, LAMBDA n : loads[n] /= CompiledLoadsOf(c)[n])
        changedGens == SelectSeq(c.gens, LAMBDA n : gens[n] /= CompiledGens[n])
    IN  CollectFrom("gen", changedGens, gens, First(changedGens),
                    CollectFrom("load", changedLoads, loads, First(changedLoads), << >>))

CollectFeatures(c, loads, gens) ==
    CollectFrom("gen", c.gens, gens, First(c.gens),
                CollectFrom("load", c.loads, loads, First(c.loads), << >>))

Min(a, b) == IF a <= b THEN a ELSE b

\* the labels loop over zip(buses, reversed(voltages))
CollectLabelsReversed(buses, voltages, n, acc) ==
    acc \o [m \in 1..Min(Len(buses), Len(voltages)) |->
              << "bus_" \o buses[m] \o "_Vpu", voltages[Len(voltages) + 1 - m] >>]

RECURSIVE CollectLabels(_, _, _, _)
\* for bus, voltage in zip(buses, voltages): labels[f"bus_{bus}_Vpu"] = voltage
CollectLabels(buses, voltages, n, acc) ==
    IF n <= Min(Len(buses), Len(voltages))
    THEN CollectLabels(buses, voltages, n + 1,
                       DictSet(acc, "bus_" \o buses[n] \o "_Vpu", voltages[n]))
    ELSE acc

\* all_data.insert(0, {**features, **labels})
PrependRow(data, f, l) == << DictUpdate(f, l) >> \o data

\* all_data.append({**labels, **features})
AppendRowLabelsFirst(data, f, l) == Append(data, DictUpdate(l, f))

\* all_data = [{**features, **labels}]
OverwriteRows(data, f, l) == << DictUpdate(f, l) >>

\* all_data.append({**features, **labels})
AppendRow(data, f, l) == Append(data, DictUpdate(f, l))

RECURSIVE Columns(_, _)
\* the columns of pd.DataFrame(list of dicts): the keys in first-seen order
Columns(data, acc) ==
    IF data = << >> THEN acc
    ELSE Columns(Tail(data),
                 acc \o SelectSeq(DictKeys(data[1]),
                                  LAMBDA k : \A m \in 1..Len(acc) : acc[m] /= k))

NaN == "NaN"

\* pd.DataFrame(all_data): one row per dict, a missing key reads NaN
DataFrame(data) ==
    LET cols == Columns(data, << >>)
    IN  [columns |-> cols,
         rows |-> [r \in 1..Len(data) |->
                     [c \in 1..Len(cols) |->
                        IF DictHas(data[r], cols[c]) THEN DictGet(data[r], cols[c])
                        ELSE NaN]]]

(***************************************************************************)
(* main()                                                                  *)
(***************************************************************************)
\* the runs explored: a circuit file, the two percentages, the scenario count
Runs ==
    { r \in [circuit : Circuits, loads_pct : LoadPercentages,
             gens_pct : GenPercentages, sims : 1..Max(MaxSims, MaxSimsDense)]
           \cup [circuit : { ExampleCircuit }, loads_pct : { 50 },
                 gens_pct : GenPercentages, sims : 1..Max(MaxSims, MaxSimsDense)] :
        r.sims <= IF NumberToChange(r.loads_pct, Len(r.circuit.loads)) > 1
                  THEN MaxSimsDense ELSE MaxSims }

\* the other entry points and the map editor are not running
ToolsIdle ==
    /\ fetch_data = None
    /\ inputs = << >>
    /\ load_values = << >>
    /\ temp_changes = << >>
    /\ load_search = None
    /\ kw_label = 0
    /\ kvar_label = 0
    /\ bus_coords = << >>
    /\ given_voltages = << >>
    /\ pu_feedback = None

Init ==
    \E r \in Runs :
        /\ pc = "setup"
        /\ circuit = r.circuit
        /\ number_of_simulations = r.sims
        /\ percentage_of_loads_to_change = r.loads_pct
        /\ percentage_of_generators_to_change = r.gens_pct
        /\ dssLoads = << >>
        /\ dssGens = << >>
        /\ original_loads = << >>
        /\ original_gens = << >>
        /\ number_of_loads_to_change = 0
        /\ number_of_generators_to_change = 0
        /\ i = 0
        /\ selected_loads = << >>
        /\ selected_gens = << >>
        /\ j = 0
        /\ applied = << >>
        /\ features = None
        /\ labels = None
        /\ all_data = << >>
        /\ table = None
        /\ solve_log = << >>
        /\ stdout = << >>
        /\ ToolsIdle

\* print(...): the text and the two numbers an f-string puts in it (0 when none)
Line(text, a, b) == [text |-> text, a |-> a, b |-> b]

\* setup_opendss without the exit() under "DSS failed to start!"
setup_opendss_no_exit ==
    /\ pc = "setup"
    /\ \E started \in BOOLEAN :
         stdout' = IF started THEN Append(stdout, Line("FILE_PATH", 0, 0))
                   ELSE stdout \o << Line("FILE_PATH", 0, 0),
                                     Line("DSS failed to start!", 0, 0) >>
    /\ dssLoads' = [n \in Range(circuit.loads) |-> CompiledLoadsOf(circuit)[n]]
    /\ dssGens' = [n \in Range(circuit.gens) |-> CompiledGens[n]]
    /\ pc' = "store"
    /\ UNCHANGED << circuit, number_of_simulations, percentage_of_loads_to_change,
                    percentage_of_generators_to_change, original_loads, original_gens,
                    number_of_loads_to_change, number_of_generators_to_change, i,
                    selected_loads, selected_gens, j, applied, features, labels,
                    all_data, table, solve_log >>
    /\ UNCHANGED toolVars

\* setup_opendss: Start, then compile the circuit; exit() when Start fails
setup_opendss ==
    /\ pc = "setup"
    /\ \E started \in BOOLEAN :
         IF started
         THEN /\ dssLoads' = [n \in Range(circuit.loads) |-> CompiledLoadsOf(circuit)[n]]
              /\ dssGens' = [n \in Range(circuit.gens) |-> CompiledGens[n]]
              /\ stdout' = Append(stdout, Line("FILE_PATH", 0, 0))
              /\ pc' = "store"
         ELSE /\ stdout' = stdout \o << Line("FILE_PATH", 0, 0),
                                        Line("DSS failed to start!", 0, 0) >>
              /\ pc' = "exit"
              /\ UNCHANGED << dssLoads, dssGens >>
    /\ UNCHANGED << circuit, number_of_simulations, percentage_of_loads_to_change,
                    percentage_of_generators_to_change, original_loads, original_gens,
                    number_of_loads_to_change, number_of_generators_to_change, i,
                    selected_loads, selected_gens, j, applied, features, labels,
                    all_data, table, solve_log >>
    /\ UNCHANGED toolVars

\* original_loads, original_gens = store_original_parameters(dssCircuit); all_data = []
StoreOriginal ==
    /\ pc = "store"
    /\ original_loads' = store_original_parameters(circuit.loads, dssLoads)
    /\ original_gens' = store_original_parameters(circuit.gens, dssGens)
    /\ all_data' = << >>
    /\ pc' = "count"
    /\ UNCHANGED << stdout, circuit, dssLoads, dssGens, number_of_simulations,
                    percentage_of_loads_to_change, percentage_of_generators_to_change,
                    number_of_loads_to_change, number_of_generators_to_change, i,
                    selected_loads, selected_gens, j, applied, features, labels,
                    table, solve_log >>
    /\ UNCHANGED toolVars

\* total_loads, total_generators and the two numbers to change
ComputeCounts ==
    /\ pc = "count"
    /\ number_of_loads_to_change' =
           NumberToChange(percentage_of_loads_to_change, Len(circuit.loads))
    /\ number_of_generators_to_change' =
           NumberToChange(percentage_of_generators_to_change, Len(circuit.gens))
    /\ pc' = "loop"
    /\ UNCHANGED << stdout, circuit, dssLoads, dssGens, number_of_simulations,
                    percentage_of_loads_to_change, percentage_of_generators_to_change,
                    original_loads, original_gens, i, selected_loads, selected_gens, j,
                    applied, features, labels, all_data, table, solve_log >>
    /\ UNCHANGED toolVars

\* for i in range(number_of_simulations): reset_to_original_parameters(...)
Reset ==
    /\ pc = "loop"
    /\ i < number_of_simulations
    /\ stdout' = Append(stdout, Line("Running simulation", i + 1, number_of_simulations))
    /\ dssLoads' = reset_to_original_parameters(dssLoads, original_loads)
    /\ dssGens' = reset_to_original_parameters(dssGens, original_gens)
    /\ pc' = "sample_loads"
    /\ UNCHANGED << circuit, number_of_simulations, percentage_of_loads_to_change,
                    percentage_of_generators_to_change, original_loads, original_gens,
                    number_of_loads_to_change, number_of_generators_to_change, i,
                    selected_loads, selected_gens, j, applied, features, labels,
                    all_data, table, solve_log >>
    /\ UNCHANGED toolVars

\* selected_loads = random.sample(dssCircuit.Loads.AllNames, number_of_loads_to_change)
SampleLoads ==
    /\ pc = "sample_loads"
    /\ IF SampleRaises(circuit.loads, number_of_loads_to_change)
       THEN /\ pc' = "ValueError"
            /\ UNCHANGED selected_loads
       ELSE /\ selected_loads' \in Sample(circuit.loads, number_of_loads_to_change)
            /\ pc' = "sample_gens"
    /\ UNCHANGED << stdout, circuit, dssLoads, dssGens, number_of_simulations,
                    percentage_of_loads_to_change, percentage_of_generators_to_change,
                    original_loads, original_gens, number_of_loads_to_change,
                    number_of_generators_to_change, i, selected_gens, j, applied,
                    features, labels, all_data, table, solve_log >>
    /\ UNCHANGED toolVars

\* selected_gens = random.sample(dssCircuit.Generators.AllNames, number_of_generators_to_change)
SampleGens ==
    /\ pc = "sample_gens"
    /\ IF SampleRaises(circuit.gens, number_of_generators_to_change)
       THEN /\ pc' = "ValueError"
            /\ UNCHANGED << selected_gens, j, applied >>
       ELSE /\ selected_gens' \in Sample(circuit.gens, number_of_generators_to_change)
            /\ j' = 0
            /\ applied' = << >>
            /\ pc' = IF Len(selected_loads) > 0 THEN "modify_loads"
                     ELSE IF Len(selected_gens') > 0 THEN "modify_gens"
                     ELSE "collect"
    /\ UNCHANGED << stdout, circuit, dssLoads, dssGens, number_of_simulations,
                    percentage_of_loads_to_change, percentage_of_generators_to_change,
                    original_loads, original_gens, number_of_loads_to_change,
                    number_of_generators_to_change, i, selected_loads, features, labels,
                    all_data, table, solve_log >>
    /\ UNCHANGED toolVars

\* one iteration of: for load_name in selected_loads: modify_load_parameters(...)
ModifyLoad ==
    /\ pc = "modify_loads"
    /\ \E kw_pct_change \in Uniform(load_kw_range),
          kvar_pct_change \in Uniform(load_kvar_range) :
         /\ dssLoads' = modify_load_parameters(dssLoads, selected_loads[j + 1],
                                               kw_pct_change, kvar_pct_change)
         /\ applied' = Append(applied, [kind |-> "load", name |-> selected_loads[j + 1],
                                        kw_pct |-> kw_pct_change,
                                        kvar_pct |-> kvar_pct_change])
    /\ IF j + 1 < Len(selected_loads)
       THEN /\ j' = j + 1
            /\ pc' = "modify_loads"
       ELSE /\ j' = 0
            /\ pc' = IF Len(selected_gens) > 0 THEN "modify_gens" ELSE "collect"
    /\ UNCHANGED << stdout, circuit, dssGens, number_of_simulations,
                    percentage_of_loads_to_change, percentage_of_generators_to_change,
                    original_loads, original_gens, number_of_loads_to_change,
                    number_of_generators_to_change, i, selected_loads, selected_gens,
                    features, labels, all_data, table, solve_log >>
    /\ UNCHANGED toolVars

\* one iteration of: for gen_name in selected_gens: modify_generator_parameters(...)
ModifyGen ==
    /\ pc = "modify_gens"
    /\ \E kw_pct_change \in Uniform(gen_kw_range),
          kvar_pct_change \in Uniform(gen_kvar_range) :
         /\ dssGens' = modify_generator_parameters(dssGens, selected_gens[j + 1],
                                                   kw_pct_change, kvar_pct_change)
         /\ applied' = Append(applied, [kind |-> "gen", name |-> selected_gens[j + 1],
                                        kw_pct |-> kw_pct_change,
                                        kvar_pct |-> kvar_pct_change])
    /\ IF j + 1 < Len(selected_gens)
       THEN /\ j' = j + 1
            /\ pc' = "modify_gens"
       ELSE /\ j' = 0
            /\ pc' = "collect"
    /\ UNCHANGED << stdout, circuit, dssLoads, number_of_simulations,
                    percentage_of_loads_to_change, percentage_of_generators_to_change,
                    original_loads, original_gens, number_of_loads_to_change,
                    number_of_generators_to_change, i, selected_loads, selected_gens,
                    features, labels, all_data, table, solve_log >>
    /\ UNCHANGED toolVars

\* features, labels = collect_data_for_ml(dssCircuit, dssSolution)
collect_data_for_ml ==
    /\ pc = "collect"
    /\ \E out \in SolveOutcomes(circuit.buses) :
         /\ solve_log' = Append(solve_log,
                IF out.converged
                THEN [converged |-> TRUE, loads |-> dssLoads, gens |-> dssGens,
                      voltages |-> out.voltages]
                ELSE [converged |-> FALSE])
         /\ IF out.converged
            THEN /\ features' = CollectFeatures(circuit, dssLoads, dssGens)
                 /\ labels' = CollectLabels(circuit.buses, out.voltages, 1, << >>)
            ELSE /\ features' = None
                 /\ labels' = None
         /\ stdout' = IF out.converged THEN stdout
                       ELSE Append(stdout, Line("Solution did not converge", 0, 0))
    /\ pc' = "append"
    /\ UNCHANGED << circuit, dssLoads, dssGens, number_of_simulations,
                    percentage_of_loads_to_change, percentage_of_generators_to_change,
                    original_loads, original_gens, number_of_loads_to_change,
                    number_of_generators_to_change, i, selected_loads, selected_gens, j,
                    applied, all_data, table >>
    /\ UNCHANGED toolVars

\* the append step treating "features is None" as solve_and_fetch_results does: exit()
AppendDataOrExit ==
    /\ pc = "append"
    /\ IF features /= None
       THEN /\ all_data' = AppendRow(all_data, features, labels)
            /\ i' = i + 1
            /\ pc' = "loop"
       ELSE /\ pc' = "exit"
            /\ UNCHANGED << all_data, i >>
    /\ UNCHANGED << stdout, circuit, dssLoads, dssGens, number_of_simulations,
                    percentage_of_loads_to_change, percentage_of_generators_to_change,
                    original_loads, original_gens, number_of_loads_to_change,
                    number_of_generators_to_change, selected_loads, selected_gens, j,
                    applied, features, labels, table, solve_log >>
    /\ UNCHANGED toolVars

\* if features is not None: all_data.append({**features, **labels}); next i
AppendData ==
    /\ pc = "append"
    /\ all_data' = IF features /= None THEN AppendRow(all_data, features, labels)
                   ELSE all_data
    /\ i' = i + 1
    /\ pc' = "loop"
    /\ UNCHANGED << stdout, circuit, dssLoads, dssGens, number_of_simulations,
                    percentage_of_loads_to_change, percentage_of_generators_to_change,
                    original_loads, original_gens, number_of_loads_to_change,
                    number_of_generators_to_change, selected_loads, selected_gens, j,
                    applied, features, labels, table, solve_log >>
    /\ UNCHANGED toolVars

\* the two saving lines indented into the for loop: saved after the first scenario
SaveInsideLoop ==
    /\ pc = "loop"
    /\ i >= 1
    /\ table' = DataFrame(all_data)
    /\ pc' = "done"
    /\ UNCHANGED << stdout, circuit, dssLoads, dssGens, number_of_simulations,
                    percentage_of_loads_to_change, percentage_of_generators_to_change,
                    original_loads, original_gens, number_of_loads_to_change,
                    number_of_generators_to_change, i, selected_loads, selected_gens, j,
                    applied, features, labels, all_data, solve_log >>
    /\ UNCHANGED toolVars

\* df = pd.DataFrame(all_data); df.to_csv("training_data.csv", index=False)
Save ==
    /\ pc = "loop"
    /\ i >= number_of_simulations
    /\ table' = DataFrame(all_data)
    /\ pc' = "done"
    /\ UNCHANGED << stdout, circuit, dssLoads, dssGens, number_of_simulations,
                    percentage_of_loads_to_change, percentage_of_generators_to_change,
                    original_loads, original_gens, number_of_loads_to_change,
                    number_of_generators_to_change, i, selected_loads, selected_gens, j,
                    applied, features, labels, all_data, solve_log >>
    /\ UNCHANGED toolVars

Next ==
    \/ setup_opendss
    \/ StoreOriginal
    \/ ComputeCounts
    \/ Reset
    \/ SampleLoads
    \/ SampleGens
    \/ ModifyLoad
    \/ ModifyGen
    \/ collect_data_for_ml
    \/ AppendData
    \/ Save

Spec == Init /\ [][Next]_vars

(***************************************************************************)
(* The variables main() alone uses, at rest: the specifications of the     *)
(* other entry points start from here.                                     *)
(***************************************************************************)
BatchIdle ==
    /\ number_of_simulations = 0
    /\ percentage_of_loads_to_change = 0
    /\ percentage_of_generators_to_change = 0
    /\ original_loads = << >>
    /\ original_gens = << >>
    /\ number_of_loads_to_change = 0
    /\ number_of_generators_to_change = 0
    /\ i = 0
    /\ selected_loads = << >>
    /\ selected_gens = << >>
    /\ j = 0
    /\ applied = << >>
    /\ all_data = << >>

\* the sequences of 1..n pairwise different names
NameLists(names, lo, hi) ==
    UNION { { s \in [1..n -> names] : \A a, b \in 1..n : a /= b => s[a] /= s[b] } :
              n \in lo..hi }

(***************************************************************************)
(* random_forest.py: the trainer reads training_data.csv and splits its    *)
(* columns into features and labels.                                       *)
(***************************************************************************)
\* largest number of loads, and of buses, of a circuit the trainer's table comes from
MaxNames == 2

\* component names, some of them the prefixes the trainer looks for
TrainerNames == { "1", "bus", "gen", "load_bus" }

TrainerCircuits ==
    [loads : NameLists(TrainerNames, 1, MaxNames),
     gens  : NameLists(TrainerNames, 0, MaxNames - 1),
     buses : NameLists(TrainerNames, 1, MaxNames)]

\* a pattern without its "^": re.search finds the word anywhere in the name
Contains(name, prefix) ==
    \E k \in 1..(Len(name) - Len(prefix) + 1) :
        SubSeq(name, k, k + Len(prefix) - 1) = prefix

\* re.search("^" + prefix, name): the name starts with the prefix
StartsWith(name, prefix) ==
    Len(name) >= Len(prefix) /\ SubSeq(name, 1, Len(prefix)) = prefix

\* df.filter(regex="^(p1|p2)").columns: the matching columns, in the table's order
FilterColumns(columns, prefixes) ==
    SelectSeq(columns, LAMBDA c : \E p \in prefixes : StartsWith(c, p))

\* features = df.filter(regex="^(load|gen)").columns
FeatureColumns(columns) == FilterColumns(columns, { "load", "gen" })

\* labels = df.filter(regex="^bus").columns
LabelColumns(columns) == FilterColumns(columns, { "bus" })

InitTrainer ==
    \E c \in TrainerCircuits :
        /\ pc = "generate"
        /\ circuit = c
        /\ dssLoads = [n \in Range(c.loads) |-> [kW |-> 1000, kvar |-> 200]]
        /\ dssGens = [n \in Range(c.gens) |-> [kW |-> 4000, kvar |-> 800]]
        /\ features = None
        /\ labels = None
        /\ table = None
        /\ solve_log = << >>
        /\ stdout = << >>
        /\ BatchIdle
        /\ ToolsIdle

\* the data generator's table for the circuit: the row of one converged scenario,
\* saved with to_csv(index=False), whose header is the columns
GenerateTable ==
    /\ pc = "generate"
    /\ all_data' = AppendRow(<< >>, CollectFeatures(circuit, dssLoads, dssGens),
                             CollectLabels(circuit.buses, AllBusVmagPu(circuit.buses),
                                           1, << >>))
    /\ table' = DataFrame(all_data')
    /\ pc' = "read_csv"
    /\ UNCHANGED << circuit, dssLoads, dssGens, features, labels, solve_log, stdout,
                    number_of_simulations, percentage_of_loads_to_change,
                    percentage_of_generators_to_change, original_loads, original_gens,
                    number_of_loads_to_change, number_of_generators_to_change, i,
                    selected_loads, selected_gens, j, applied >>
    /\ UNCHANGED toolVars

\* df = pd.read_csv(...); features = ...; labels = ...; X = df[features]; y = df[labels]
ExtractFeaturesLabels ==
    /\ pc = "read_csv"
    /\ features' = FeatureColumns(table.columns)
    /\ labels' = LabelColumns(table.columns)
    /\ pc' = "trained"
    /\ UNCHANGED << circuit, dssLoads, dssGens, table, solve_log, stdout >>
    /\ UNCHANGED batchVars
    /\ UNCHANGED toolVars

NextTrainer ==
    \/ GenerateTable
    \/ ExtractFeaturesLabels

SpecTrainer == InitTrainer /\ [][NextTrainer]_vars

(***************************************************************************)
(* solve_and_fetch_results, the single-solve entry point, next to          *)
(* collect_data_for_ml, the one main() calls.                              *)
(***************************************************************************)
\* largest number of generators of a circuit handed to solve_and_fetch_results
MaxGens == 3

GeneratorList == << "G1", "G2", "G3", "G4", "G5" >>

\* the generators' values in the engine, each its own
GeneratorValues ==
    [n \in Range(GeneratorList) |->
        LET k == CHOOSE m \in 1..Len(GeneratorList) : GeneratorList[m] = n
        IN  [kW |-> 4000 + 100 * k, kvar |-> 800 + 10 * k]]

FetchCircuits ==
    { [loads |-> l, gens |-> SubSeq(GeneratorList, 1, n), buses |-> b] :
        l \in { << "L1" >>, << "L1", "L2" >> },
        n \in 0..MaxGens,
        b \in { << "B1" >>, << "B1", "B2" >> } }

\* the engine's Next on a collection whose active element is at position active:
\* it moves to the following element and returns its index; at the last one it
\* stays and returns 0
Advance(names, active) ==
    IF active < Len(names) THEN [active |-> active + 1, idx |-> active + 1]
    ELSE [active |-> active, idx |-> 0]

RECURSIVE FetchLoadData(_, _, _, _, _)
\* while load_idx > 0: load_data[loads.Name] = {...}; load_idx = Loads.Next
FetchLoadData(names, dss, active, load_idx, acc) ==
    IF load_idx > 0
    THEN LET next == Advance(names, active)
         IN  FetchLoadData(names, dss, next.active, next.idx,
                 DictSet(acc, names[active],
                         [kW |-> dss[names[active]].kW, kvar |-> dss[names[active]].kvar]))
    ELSE acc

RECURSIVE FetchGenData(_, _, _, _, _)
\* while gen_idx > 0: gen_data[gens.Name] = {...}; gens.Next; gen_idx = Generators.Next
FetchGenData(names, dss, active, gen_idx, acc) ==
    IF gen_idx > 0
    THEN LET moved == Advance(names, active)
             next == Advance(names, moved.active)
         IN  FetchGenData(names, dss, next.active, next.idx,
                 DictSet(acc, names[active],
                         [kW |-> dss[names[active]].kW, kvar |-> dss[names[active]].kvar]))
    ELSE acc

\* dict(zip(buses, voltages))
ZipDict(buses, voltages) ==
    [n \in 1..Min(Len(buses), Len(voltages)) |-> << buses[n], voltages[n] >>]

InitFetch ==
    \E c \in FetchCircuits, entry \in { "fetch", "collect" }, pct \in { 0, 50 } :
        /\ pc = entry
        /\ circuit = c
        /\ dssLoads = [n \in Range(c.loads) |->
                          [kW |-> Scale(CompiledLoads[n].kW, pct),
                           kvar |-> Scale(CompiledLoads[n].kvar, pct)]]
        /\ dssGens = [n \in Range(c.gens) |-> GeneratorValues[n]]
        /\ features = None
        /\ labels = None
        /\ table = None
        /\ solve_log = << >>
        /\ stdout = << >>
        /\ BatchIdle
        /\ ToolsIdle

\* solve_and_fetch_results returning None where it calls exit()
solve_and_fetch_results_no_exit ==
    /\ pc = "fetch"
    /\ \E out \in SolveOutcomes(circuit.buses) :
         /\ solve_log' = Append(solve_log,
                IF out.converged
                THEN [converged |-> TRUE, loads |-> dssLoads, gens |-> dssGens,
                      voltages |-> out.voltages]
                ELSE [converged |-> FALSE])
         /\ fetch_data' = None
         /\ stdout' = IF out.converged THEN stdout
                       ELSE Append(stdout, Line("Solution did not Converge", 0, 0))
    /\ pc' = "returned"
    /\ UNCHANGED << circuit, dssLoads, dssGens, features, labels, table >>
    /\ UNCHANGED batchVars
    /\ UNCHANGED << inputs, load_values, temp_changes, load_search, kw_label,
                    kvar_label, bus_coords, given_voltages, pu_feedback >>

\* data = solve_and_fetch_results(dssCircuit, dssText, dssSolution)
solve_and_fetch_results ==
    /\ pc = "fetch"
    /\ \E out \in SolveOutcomes(circuit.buses) :
         /\ solve_log' = Append(solve_log,
                IF out.converged
                THEN [converged |-> TRUE, loads |-> dssLoads, gens |-> dssGens,
                      voltages |-> out.voltages]
                ELSE [converged |-> FALSE])
         /\ IF out.converged
            THEN /\ fetch_data' =
                       [Loads |-> FetchLoadData(circuit.loads, dssLoads,
                                      First(circuit.loads), First(circuit.loads), << >>),
                        Generators |-> FetchGenData(circuit.gens, dssGens,
                                           First(circuit.gens), First(circuit.gens), << >>),
                        Voltages |-> ZipDict(circuit.buses, out.voltages)]
                 /\ stdout' = stdout
                 /\ pc' = "returned"
            ELSE /\ fetch_data' = None
                 /\ stdout' = Append(stdout, Line("Solution did not Converge", 0, 0))
                 /\ pc' = "exit"
    /\ UNCHANGED << circuit, dssLoads, dssGens, features, labels, table >>
    /\ UNCHANGED batchVars
    /\ UNCHANGED << inputs, load_values, temp_changes, load_search, kw_label,
                    kvar_label, bus_coords, given_voltages, pu_feedback >>

\* either entry point is called once; the caller of collect_data_for_ml goes on
NextFetch ==
    \/ solve_and_fetch_results
    \/ collect_data_for_ml
    \/ AppendData

SpecFetch == InitFetch /\ [][NextFetch]_vars

(***************************************************************************)
(* add_pu_feedback_layer of map_qt_folium.py: one marker per bus, green or *)
(* red by the voltage read for it.  Voltages are in hundredths of pu.      *)
(***************************************************************************)
\* largest number of buses with coordinates
MaxBuses == 3

\* largest number of voltages handed over
MaxVoltages == 4

BusList == << "B1", "B2", "B3", "B4", "B5" >>

\* 0 pu (a dead bus), below, inside and above the thresholds
VoltageLevels == { 0, 90, 100, 110 }

\* threshold=(0.95, 1.05)
threshold == << 95, 105 >>

\* the layer before the loop: no marker; interval = 0; reads keeps every index
\* the loop uses into given_voltages, raised the exception that ended it
EmptyLayer == [markers |-> << >>, interval |-> 0, reads |-> << >>, raised |-> None]

\* the loop body for one bus: pu_value = given_voltages[interval + 3 % len(...)],
\* where % binds tighter than +; a marker and interval += 1 only "if pu_value"
FeedbackIteration(layer, bus_name, voltages, thr) ==
    LET index == layer.interval + (3 % Len(voltages))
    IN  IF index >= Len(voltages)
        THEN [layer EXCEPT !.reads = Append(@, index), !.raised = "IndexError"]
        ELSE LET pu_value == voltages[index + 1]
             IN  IF pu_value /= 0
                 THEN [layer EXCEPT !.reads = Append(@, index),
                                    !.interval = @ + 1,
                                    !.markers = Append(@,
                                        [bus |-> bus_name, pu |-> pu_value,
                                         color |-> IF thr[1] <= pu_value /\ pu_value <= thr[2]
                                                   THEN "green" ELSE "red"])]
                 ELSE [layer EXCEPT !.reads = Append(@, index)]

RECURSIVE FeedbackLoop(_, _, _, _, _)
\* for bus_name, coord in bus_coords.items(), from the n-th bus on
FeedbackLoop(coords, voltages, thr, n, layer) ==
    IF n > Len(coords) \/ layer.raised /= None THEN layer
    ELSE FeedbackLoop(coords, voltages, thr, n + 1,
                      FeedbackIteration(layer, coords[n], voltages, thr))

add_pu_feedback_layer(coords, voltages, thr) ==
    FeedbackLoop(coords, voltages, thr, 1, EmptyLayer)

VoltageLists(lo, hi) == UNION { [1..n -> VoltageLevels] : n \in lo..hi }

InitLayer ==
    \E n \in 1..MaxBuses :
      \E v \in VoltageLists(n, MaxVoltages) :
        /\ pc = "layer"
        /\ bus_coords = SubSeq(BusList, 1, n)
        /\ given_voltages = v
        /\ pu_feedback = None
        /\ circuit = None
        /\ dssLoads = << >>
        /\ dssGens = << >>
        /\ features = None
        /\ labels = None
        /\ table = None
        /\ solve_log = << >>
        /\ stdout = << >>
        /\ fetch_data = None
        /\ inputs = << >>
        /\ load_values = << >>
        /\ temp_changes = << >>
        /\ load_search = None
        /\ kw_label = 0
        /\ kvar_label = 0
        /\ BatchIdle

\* m = add_pu_feedback_layer(m, bus_coords, given_voltages)
CallAddPuFeedbackLayer ==
    /\ pc = "layer"
    /\ pu_feedback' = add_pu_feedback_layer(bus_coords, given_voltages, threshold)
    /\ pc' = IF pu_feedback'.raised = None THEN "returned" ELSE pu_feedback'.raised
    /\ UNCHANGED << circuit, dssLoads, dssGens, features, labels, table, solve_log,
                    stdout, fetch_data, inputs, load_values, temp_changes, load_search,
                    kw_label, kvar_label, bus_coords, given_voltages >>
    /\ UNCHANGED batchVars

NextLayer == CallAddPuFeedbackLayer

SpecLayer == InitLayer /\ [][NextLayer]_vars

(***************************************************************************)
(* opendss_python_simulation.py: the interactive script, after its first   *)
(* solve, at the menu; one of the three load changes is chosen.            *)
(***************************************************************************)
\* largest num_loads typed into change_multiple_specific_loads
MaxNumLoads == 2

\* the percentages typed at "How much would you like to change the load?"
ScriptPercentages == { -50, 0, 50, 99, 100 }

ScriptCircuits ==
    { [loads |-> << "L1" >>, gens |-> << >>, buses |-> << "B1" >>],
      [loads |-> << "L1", "L2" >>, gens |-> << >>, buses |-> << "B1", "B2" >>] }

\* the loads the script's circuit compiles to, in hundredths of kW and kvar
ScriptLoads ==
    ("L1" :> [kW |-> 1000000, kvar |-> 200000]) @@ ("L2" :> [kW |-> 2000000, kvar |-> 400000])

\* factor = (1 + factor) / 100; value * factor
TimesFactor(x, factor) == (x * (1 + factor)) \div 100

\* Loads.Name = bus; Loads.kw = load_kw * factor; Loads.kvar = load_kvar * factor
ChangeLoad(dss, bus, factor) ==
    [dss EXCEPT ![bus] = [kW |-> TimesFactor(@.kW, factor),
                          kvar |-> TimesFactor(@.kvar, factor)]]

RECURSIVE ChangeLoads(_, _)
\* the typed (bus, factor) pairs applied in order
ChangeLoads(dss, typed) ==
    IF typed = << >> THEN dss
    ELSE ChangeLoads(ChangeLoad(dss, typed[1].bus, typed[1].factor), Tail(typed))

\* the lists of at most n typed (bus, factor) pairs
TypedLists(names, n) ==
    UNION { [1..k -> [bus : names, factor : ScriptPercentages]] : k \in 0..n }

InitScript ==
    \E c \in ScriptCircuits :
        /\ pc = "menu"
        /\ circuit = c
        /\ dssLoads = [n \in Range(c.loads) |-> ScriptLoads[n]]
        /\ dssGens = << >>
        /\ inputs = << >>
        /\ features = None
        /\ labels = None
        /\ table = None
        /\ solve_log = << >>
        /\ stdout = << >>
        /\ fetch_data = None
        /\ load_values = << >>
        /\ temp_changes = << >>
        /\ load_search = None
        /\ kw_label = 0
        /\ kvar_label = 0
        /\ bus_coords = << >>
        /\ given_voltages = << >>
        /\ pu_feedback = None
        /\ BatchIdle

\* choice 1: change_one_load(dssCircuit, dssSolution)
change_one_load ==
    /\ pc = "menu"
    /\ \E bus \in Range(circuit.loads), factor \in ScriptPercentages :
         /\ inputs' = << [bus |-> bus, factor |-> factor] >>
         /\ dssLoads' = ChangeLoad(dssLoads, bus, factor)
    /\ solve_log' = Append(solve_log, [loads |-> dssLoads'])
    /\ pc' = "changed"
    /\ UNCHANGED << circuit, dssGens, features, labels, table, stdout, fetch_data,
                    load_values, temp_changes, load_search, kw_label, kvar_label,
                    bus_coords, given_voltages, pu_feedback >>
    /\ UNCHANGED batchVars

\* choice 2: change_multiple_loads(dssCircuit, dssSolution), every load in turn
change_multiple_loads ==
    /\ pc = "menu"
    /\ \E factor \in ScriptPercentages :
         /\ inputs' = [n \in 1..Len(circuit.loads) |->
                          [bus |-> circuit.loads[n], factor |-> factor]]
         /\ dssLoads' = ChangeLoads(dssLoads, inputs')
    /\ solve_log' = Append(solve_log, [loads |-> dssLoads'])
    /\ pc' = "changed"
    /\ UNCHANGED << circuit, dssGens, features, labels, table, stdout, fetch_data,
                    load_values, temp_changes, load_search, kw_label, kvar_label,
                    bus_coords, given_voltages, pu_feedback >>
    /\ UNCHANGED batchVars

\* choice 3: change_multiple_specific_loads(dssCircuit, dssSolution)
change_multiple_specific_loads ==
    /\ pc = "menu"
    /\ \E typed \in TypedLists(Range(circuit.loads), MaxNumLoads) :
         /\ inputs' = typed
         /\ dssLoads' = ChangeLoads(dssLoads, typed)
    /\ solve_log' = Append(solve_log, [loads |-> dssLoads'])
    /\ pc' = "changed"
    /\ UNCHANGED << circuit, dssGens, features, labels, table, stdout, fetch_data,
                    load_values, temp_changes, load_search, kw_label, kvar_label,
                    bus_coords, given_voltages, pu_feedback >>
    /\ UNCHANGED batchVars

NextScript ==
    \/ change_one_load
    \/ change_multiple_loads
    \/ change_multiple_specific_loads

SpecScript == InitScript /\ [][NextScript]_vars

(***************************************************************************)
(* BusEditor of Scripts/map_qt_folium.py.  Load values are in thousandths  *)
(* of kW and kvar, the two value labels in hundredths, as "{:.2f}" writes  *)
(* them.  The editor is idle between two clicks.                           *)
(***************************************************************************)
\* largest number of clicks on "Run Simulation", in a circuit of one load
MaxRuns == 2

\* largest number of clicks on "Run Simulation", in a circuit of several loads
MaxRunsMany == 1

\* the values of the percentage spin boxes that are tried (of -100..100)
EditorPercentages == { 0, 100 }

\* every bus has coordinates; bus names are as lower() leaves them
EditorCircuits ==
    { [loads |-> << "L1", "L2" >>, gens |-> << >>, buses |-> << "b1" >>],
      [loads |-> << "L1" >>, gens |-> << >>, buses |-> << "b1", "b2", "b3" >>],
      [loads |-> << "L1" >>, gens |-> << >>, buses |-> << "b1", "b2" >>] }

\* what load_bus_data reads from the engine for each load
EditorLoads ==
    ("L1" :> [bus |-> "b1", kv |-> 12, kw |-> 10456, kvar |-> 2000])
    @@ ("L2" :> [bus |-> "b1", kv |-> 12, kw |-> 20000, kvar |-> 4124])

\* "{:.2f}".format(value): thousandths to the nearest hundredth (no value of
\* the model lies half way)
Format2(value) == (value + 5) \div 10

\* float(label.text()) + float(label.text()) * (percent / 100), in thousandths
StagedValue(label, percent) == label * 10 + (label * 10 * percent) \div 100

\* value *= 1 + adjustment_percentage, when the attribute's box is checked
Adjusted(value, checked, percent) ==
    IF checked THEN (value * (100 + percent)) \div 100 ELSE value

\* the clicks on "Run Simulation" explored in circuit c
RunsOf(c) == IF Len(c.loads) > 1 THEN MaxRunsMany ELSE MaxRuns

\* temp_changes[load] = values
Staged(changes, load, values) ==
    [n \in (DOMAIN changes) \cup { load } |-> IF n = load THEN values ELSE changes[n]]

\* the for loop of run_simulation: Loads.Name = load_name; Loads.kW = ...; Loads.kvar = ...
WriteLoads(dss, changed_loads) ==
    [n \in DOMAIN dss |->
        IF n \in DOMAIN changed_loads
        THEN [kW |-> changed_loads[n].kw, kvar |-> changed_loads[n].kvar]
        ELSE dss[n]]

\* for load, values in self.temp_changes.items(): self.load_values[load] = values
Commit(values, changes) ==
    [n \in DOMAIN values |-> IF n \in DOMAIN changes THEN changes[n] ELSE values[n]]

InitEditor ==
    \E c \in EditorCircuits :
        /\ pc = "idle"
        /\ circuit = c
        /\ dssLoads = [n \in Range(c.loads) |->
                          [kW |-> EditorLoads[n].kw, kvar |-> EditorLoads[n].kvar]]
        /\ dssGens = << >>
        /\ load_values = [n \in Range(c.loads) |-> EditorLoads[n]]
        /\ temp_changes = << >>
        /\ load_search = c.loads[1]
        /\ kw_label = Format2(EditorLoads[c.loads[1]].kw)
        /\ kvar_label = Format2(EditorLoads[c.loads[1]].kvar)
        /\ bus_coords = c.buses
        /\ given_voltages = << >>
        /\ pu_feedback = None
        /\ inputs = << >>
        /\ features = None
        /\ labels = None
        /\ table = None
        /\ solve_log = << >>
        /\ stdout = << >>
        /\ fetch_data = None
        /\ BatchIdle

\* the dropdown moves to another load: currentIndexChanged calls populate_values
SelectLoad ==
    /\ pc = "idle"
    /\ \E load \in DOMAIN load_values :
         /\ load /= load_search
         /\ load_search' = load
         /\ kw_label' = Format2(load_values[load].kw)
         /\ kvar_label' = Format2(load_values[load].kvar)
         /\ inputs' = [op |-> "select", load |-> load]
    /\ UNCHANGED << pc, circuit, dssLoads, dssGens, load_values, temp_changes,
                    bus_coords, given_voltages, pu_feedback, features, labels, table,
                    solve_log, stdout, fetch_data >>
    /\ UNCHANGED batchVars

\* "Submit Changes": submit_changes, ending in populate_values
submit_changes ==
    /\ pc = "idle"
    /\ \E kw_percent, kvar_percent \in EditorPercentages :
         /\ temp_changes' = Staged(temp_changes, load_search,
                [kw |-> StagedValue(kw_label, kw_percent),
                 kvar |-> StagedValue(kvar_label, kvar_percent)])
         /\ inputs' = [op |-> "submit", load |-> load_search,
                       kw_percent |-> kw_percent, kvar_percent |-> kvar_percent]
    /\ kw_label' = Format2(load_values[load_search].kw)
    /\ kvar_label' = Format2(load_values[load_search].kvar)
    /\ UNCHANGED << pc, circuit, dssLoads, dssGens, load_values, load_search,
                    bus_coords, given_voltages, pu_feedback, features, labels, table,
                    solve_log, stdout, fetch_data >>
    /\ UNCHANGED batchVars

\* apply_global_adjustment with adjusted_values = values in place of values.copy():
\* the adjustment is made on the committed dict itself
apply_global_adjustment_no_copy ==
    /\ pc = "idle"
    /\ \E percent \in EditorPercentages, kw_checked, kvar_checked \in BOOLEAN :
         /\ load_values' =
                [n \in DOMAIN load_values |->
                    [load_values[n] EXCEPT !.kw = Adjusted(@, kw_checked, percent),
                                           !.kvar = Adjusted(@, kvar_checked, percent)]]
         /\ inputs' = [op |-> "global", percent |-> percent,
                       kw_checked |-> kw_checked, kvar_checked |-> kvar_checked]
    /\ temp_changes' = load_values'
    /\ kw_label' = Format2(load_values'[load_search].kw)
    /\ kvar_label' = Format2(load_values'[load_search].kvar)
    /\ UNCHANGED << pc, circuit, dssLoads, dssGens, load_search,
                    bus_coords, given_voltages, pu_feedback, features, labels, table,
                    solve_log, stdout, fetch_data >>
    /\ UNCHANGED batchVars

\* "Submit all Loads changes": apply_global_adjustment, ending in populate_values
apply_global_adjustment ==
    /\ pc = "idle"
    /\ \E percent \in EditorPercentages, kw_checked, kvar_checked \in BOOLEAN :
         /\ temp_changes' =
                [n \in DOMAIN load_values |->
                    [load_values[n] EXCEPT !.kw = Adjusted(@, kw_checked, percent),
                                           !.kvar = Adjusted(@, kvar_checked, percent)]]
         /\ inputs' = [op |-> "global", percent |-> percent,
                       kw_checked |-> kw_checked, kvar_checked |-> kvar_checked]
    /\ kw_label' = Format2(load_values[load_search].kw)
    /\ kvar_label' = Format2(load_values[load_search].kvar)
    /\ UNCHANGED << pc, circuit, dssLoads, dssGens, load_values, load_search,
                    bus_coords, given_voltages, pu_feedback, features, labels, table,
                    solve_log, stdout, fetch_data >>
    /\ UNCHANGED batchVars

\* run_simulation returning after its print when the solve did not converge
BusEditor_run_simulation_skip ==
    /\ pc = "idle"
    /\ Len(solve_log) < RunsOf(circuit)
    /\ load_values' = Commit(load_values, temp_changes)
    /\ dssLoads' = WriteLoads(dssLoads, temp_changes)
    /\ \E out \in SolveOutcomes(circuit.buses) :
         /\ solve_log' = Append(solve_log, [converged |-> out.converged])
         /\ inputs' = [op |-> "run", written |-> DOMAIN temp_changes,
                       converged |-> out.converged]
         /\ stdout' = Append(stdout,
                Line(IF out.converged THEN "Solution converged successfully."
                     ELSE "Solution did not converge.", 0, 0))
         /\ IF out.converged
            THEN /\ given_voltages' = out.voltages
                 /\ pu_feedback' = add_pu_feedback_layer(bus_coords, out.voltages, threshold)
                 /\ IF pu_feedback'.raised = None
                    THEN /\ temp_changes' = << >>
                         /\ pc' = "idle"
                    ELSE /\ temp_changes' = temp_changes
                         /\ pc' = pu_feedback'.raised
            ELSE /\ temp_changes' = << >>
                 /\ pc' = "idle"
                 /\ UNCHANGED << given_voltages, pu_feedback >>
    /\ UNCHANGED << circuit, dssGens, load_search, kw_label, kvar_label, bus_coords,
                    features, labels, table, fetch_data >>
    /\ UNCHANGED batchVars

\* "Run Simulation": BusEditor.run_simulation, with the module's run_simulation
\* it calls; an exception of add_pu_feedback_layer leaves the handler at once
BusEditor_run_simulation ==
    /\ pc = "idle"
    /\ Len(solve_log) < RunsOf(circuit)
    /\ load_values' = Commit(load_values, temp_changes)
    /\ dssLoads' = WriteLoads(dssLoads, temp_changes)
    /\ \E out \in SolveOutcomes(circuit.buses) :
         /\ solve_log' = Append(solve_log, [converged |-> out.converged])
         /\ inputs' = [op |-> "run", written |-> DOMAIN temp_changes,
                       converged |-> out.converged]
         /\ stdout' = Append(stdout,
                Line(IF out.converged THEN "Solution converged successfully."
                     ELSE "Solution did not converge.", 0, 0))
         /\ given_voltages' = out.voltages
         /\ pu_feedback' = add_pu_feedback_layer(bus_coords, out.voltages, threshold)
    /\ IF pu_feedback'.raised = None
       THEN /\ temp_changes' = << >>
            /\ pc' = "idle"
       ELSE /\ temp_changes' = temp_changes
            /\ pc' = pu_feedback'.raised
    /\ UNCHANGED << circuit, dssGens, load_search, kw_label, kvar_label, bus_coords,
                    features, labels, table, fetch_data >>
    /\ UNCHANGED batchVars

NextEditor ==
    \/ SelectLoad
    \/ submit_changes
    \/ apply_global_adjustment
    \/ BusEditor_run_simulation

SpecEditor == InitEditor /\ [][NextEditor]_vars

(***************************************************************************)
(* Properties.                                                             *)
(***************************************************************************)
LoadNames == Range(circuit.loads)

GenNames == Range(circuit.gens)

\* main() is past the computation of the numbers to change
Counted == pc \notin { "setup", "exit", "store", "count" }

\* the calls of the running scenario made for component n of a kind
AppliedTo(kind, n) == SelectSeq(applied, LAMBDA a : a.kind = kind /\ a.name = n)

\* the scenarios solved so far that converged, in order
ConvergedScenarios == SelectSeq(solve_log, LAMBDA e : e.converged)

InRange(pct, range) == range[1] <= pct /\ pct <= range[2]

\* C1: when solve is invoked, every load and generator that was not selected in
\* this scenario has exactly its snapshot kW and kvar, whatever earlier
\* scenarios perturbed.
C1_NoDrift ==
    pc = "collect" =>
        /\ \A n \in LoadNames \ Range(selected_loads) :
              /\ DictHas(original_loads, n)
              /\ dssLoads[n] = DictGet(original_loads, n)
        /\ \A n \in GenNames \ Range(selected_gens) :
              /\ DictHas(original_gens, n)
              /\ dssGens[n] = DictGet(original_gens, n)

\* a solve with an unselected load that the preceding (converged) scenario had
\* moved away from its snapshot
C1_Witness ==
    /\ pc = "collect"
    /\ i >= 1
    /\ solve_log[i].converged
    /\ \E n \in LoadNames \ Range(selected_loads) :
          solve_log[i].loads[n] /= DictGet(original_loads, n)

C3_RoundedCount ==
    Counted =>
        /\ percentage_of_loads_to_change <= 100 =>
              number_of_loads_to_change
                = Max(1, Round(percentage_of_loads_to_change * Len(circuit.loads), 100))
        /\ percentage_of_generators_to_change <= 100 =>
              number_of_generators_to_change
                = Max(1, Round(percentage_of_generators_to_change * Len(circuit.gens), 100))

\* k is the product percentage * total / 100 cut down to a whole number, and 1
\* when that is below 1
TruncatedCount(k, percentage, total) ==
    IF percentage * total < 200
    THEN k = 1
    ELSE k * 100 <= percentage * total /\ percentage * total < (k + 1) * 100

\* C3 amended: the numbers to change are max(1, int(fraction * total)), the
\* product truncated, not rounded.
C3_TruncatedCount ==
    Counted =>
        /\ TruncatedCount(number_of_loads_to_change,
                          percentage_of_loads_to_change, Len(circuit.loads))
        /\ TruncatedCount(number_of_generators_to_change,
                          percentage_of_generators_to_change, Len(circuit.gens))

\* 80 percent of 2 loads: 1.6 rounds to 2 and truncates to 1
C3_Witness ==
    /\ Counted
    /\ percentage_of_loads_to_change * Len(circuit.loads) = 160
    /\ number_of_loads_to_change = 1

\* C4: in a category with at least one component the number to change is at
\* least 1, and every scenario that is solved has modified at least one
\* component of the category.
C4_FloorOfOne ==
    /\ Counted /\ Len(circuit.loads) >= 1 => number_of_loads_to_change >= 1
    /\ Counted /\ Len(circuit.gens) >= 1 => number_of_generators_to_change >= 1
    /\ pc = "collect" /\ Len(circuit.loads) >= 1 =>
          \E n \in LoadNames : Len(AppliedTo("load", n)) >= 1
    /\ pc = "collect" /\ Len(circuit.gens) >= 1 =>
          \E n \in GenNames : Len(AppliedTo("gen", n)) >= 1

\* a solve where fraction * total is below 1 for both categories
C4_Witness ==
    /\ pc = "collect"
    /\ percentage_of_loads_to_change * Len(circuit.loads) < 100
    /\ percentage_of_generators_to_change * Len(circuit.gens) < 100
    /\ Len(circuit.gens) >= 1
    /\ Len(applied) = 2

\* C5 as stated: the numbers to change never exceed the component counts, so
\* no draw fails.
C5_ClampedToTotal ==
    /\ pc /= "ValueError"
    /\ Counted =>
          /\ number_of_loads_to_change <= Len(circuit.loads)
          /\ number_of_generators_to_change <= Len(circuit.gens)

\* C6: the snapshot is written by one step only, which runs once, right after
\* setup and before any scenario; that step records every load and generator
\* with its compiled values; no other step changes the snapshot.
C6_SnapshotOnce ==
    [][ /\ (original_loads' /= original_loads \/ original_gens' /= original_gens)
            => pc = "store"
        /\ pc' = "store" => pc = "setup"
        /\ pc = "store" =>
              /\ i = 0 /\ solve_log = << >> /\ applied = << >>
              /\ Len(original_loads') = Len(circuit.loads)
              /\ \A n \in LoadNames :
                    /\ DictHas(original_loads', n)
                    /\ DictGet(original_loads', n) = CompiledLoadsOf(circuit)[n]
              /\ Len(original_gens') = Len(circuit.gens)
              /\ \A n \in GenNames :
                    /\ DictHas(original_gens', n)
                    /\ DictGet(original_gens', n) = CompiledGens[n]
      ]_vars

\* a second scenario's solve, with the engine away from the snapshot and the
\* snapshot still the compiled values of every component
C6_Witness ==
    /\ pc = "collect"
    /\ i >= 1
    /\ \A n \in LoadNames : DictGet(original_loads, n) = CompiledLoadsOf(circuit)[n]
    /\ \A n \in GenNames : DictGet(original_gens, n) = CompiledGens[n]
    /\ \E n \in LoadNames : dssLoads[n] /= DictGet(original_loads, n)
    /\ Len(circuit.loads) = 2

\* C7: right after the reset that opens a scenario, before anything is
\* selected, every load and generator of the engine holds its snapshot values.
C7_ResetRestoresAll ==
    pc = "sample_loads" =>
        /\ \A n \in LoadNames : dssLoads[n] = DictGet(original_loads, n)
        /\ \A n \in GenNames : dssGens[n] = DictGet(original_gens, n)

\* the reset of a later scenario, after a scenario that perturbed a load and a
\* generator
C7_Witness ==
    /\ pc = "sample_loads"
    /\ i >= 1
    /\ solve_log[i].converged
    /\ \E n \in LoadNames : solve_log[i].loads[n] /= DictGet(original_loads, n)
    /\ \E n \in GenNames : solve_log[i].gens[n] /= DictGet(original_gens, n)

Distinct(s) == \A a, b \in 1..Len(s) : a /= b => s[a] /= s[b]

\* C8: the selected loads (generators) are as many as the number to change,
\* pairwise distinct and names of the circuit; at the solve each selected
\* component has been modified once and nothing else has.
C8_DistinctSelection ==
    /\ pc \in { "sample_gens", "modify_loads", "modify_gens", "collect" } =>
          /\ Len(selected_loads) = number_of_loads_to_change
          /\ Distinct(selected_loads)
          /\ Range(selected_loads) \subseteq LoadNames
    /\ pc \in { "modify_loads", "modify_gens", "collect" } =>
          /\ Len(selected_gens) = number_of_generators_to_change
          /\ Distinct(selected_gens)
          /\ Range(selected_gens) \subseteq GenNames
    /\ pc = "collect" =>
          [n \in 1..Len(applied) |-> applied[n].name] = selected_loads \o selected_gens

\* a solve with two loads selected
C8_Witness ==
    /\ pc = "collect"
    /\ Len(selected_loads) = 2
    /\ Len(selected_gens) = 1

\* C9: after a solve that did not converge, the append step leaves the rows as
\* they are and moves on to the next scenario; nothing is saved by it.
C9_SkipNotConverged ==
    [][ pc = "append" /\ ~ solve_log[Len(solve_log)].converged =>
            /\ all_data' = all_data
            /\ i' = i + 1
            /\ pc' = "loop"
            /\ table' = table
      ]_vars

\* a run whose first scenario did not converge and whose second one gave a row
C9_Witness ==
    /\ pc = "done"
    /\ Len(solve_log) = 2
    /\ ~ solve_log[1].converged
    /\ solve_log[2].converged
    /\ Len(all_data) = 1

\* C10: when the run is over, the rows are as many as the scenarios that
\* converged, at most number_of_simulations, and the saved table has one row
\* per converged scenario, in scenario order, holding that scenario's values.
C10_RowsAreConvergedScenarios ==
    pc = "done" =>
        /\ Len(solve_log) = number_of_simulations
        /\ Len(all_data) = Len(ConvergedScenarios)
        /\ Len(all_data) <= number_of_simulations
        /\ Len(table.rows) = Len(ConvergedScenarios)
        /\ \A r \in 1..Len(ConvergedScenarios) :
              /\ \A n \in LoadNames :
                    \E c \in 1..Len(table.columns) :
                       /\ table.columns[c] = "load_" \o n \o "_kW"
                       /\ table.rows[r][c] = ConvergedScenarios[r].loads[n].kW
              /\ \A n \in GenNames :
                    \E c \in 1..Len(table.columns) :
                       /\ table.columns[c] = "gen_" \o n \o "_kvar"
                       /\ table.rows[r][c] = ConvergedScenarios[r].gens[n].kvar

\* a saved table of two rows that differ
C10_Witness ==
    /\ pc = "done"
    /\ Len(table.rows) = 2
    /\ table.rows[1] /= table.rows[2]

\* C11 as stated: the skipped scenarios are counted and, when the run is over,
\* a summary of the scenarios requested, retained and skipped has been printed
\* after the lines of the setup and of the loop.
C11_SkipsCountedAndSummarised ==
    pc = "done" =>
        stdout[Len(stdout)].text
            \notin { "FILE_PATH", "Running simulation", "Solution did not converge" }

\* the keys of a row, for the circuit's loads, generators and buses
FeatureKeys ==
    { "load_" \o n \o "_kW" : n \in LoadNames } \cup { "load_" \o n \o "_kvar" : n \in LoadNames }
    \cup { "gen_" \o n \o "_kW" : n \in GenNames } \cup { "gen_" \o n \o "_kvar" : n \in GenNames }

LabelKeys == { "bus_" \o b \o "_Vpu" : b \in Range(circuit.buses) }

\* C12: all the rows kept so far have the same keys in the same order.
C12_SchemaStable ==
    \A a, b \in 1..Len(all_data) : DictKeys(all_data[a]) = DictKeys(all_data[b])

\* two rows kept, with different values under the same keys
C12_Witness ==
    /\ Len(all_data) = 2
    /\ all_data[1] /= all_data[2]
    /\ Len(all_data[1]) = 2 * (Len(circuit.loads) + Len(circuit.gens)) + Len(circuit.buses)

\* C13: the saved table's columns are the keys of the first row; they are the
\* feature keys followed by the label keys, none twice, and no bus key is a
\* feature key.
C13_FeaturesBeforeLabels ==
    /\ FeatureKeys \cap LabelKeys = { }
    /\ pc = "done" /\ Len(all_data) >= 1 =>
          /\ table.columns = DictKeys(all_data[1])
          /\ Distinct(table.columns)
          /\ Range(table.columns) = FeatureKeys \cup LabelKeys
          /\ \A a, b \in 1..Len(table.columns) :
                table.columns[a] \in LabelKeys /\ table.columns[b] \in FeatureKeys => b < a

\* a saved table with feature and label columns of two loads, a generator and
\* two buses
C13_Witness ==
    /\ pc = "done"
    /\ Len(table.columns) = 8
    /\ table.columns[6] \in FeatureKeys
    /\ table.columns[7] \in LabelKeys

\* C14: the r-th row kept holds, for the r-th converged scenario, the kW and
\* kvar the engine held for every load and generator at the solve and, for
\* every bus, the voltage at that bus's position; it has no other entry.
C14_RowHoldsEngineState ==
    /\ Len(all_data) <= Len(ConvergedScenarios)
    /\ \A r \in 1..Len(all_data) :
          LET row == all_data[r]
              e == ConvergedScenarios[r]
          IN  /\ Len(row) = 2 * (Len(circuit.loads) + Len(circuit.gens)) + Len(circuit.buses)
              /\ \A n \in LoadNames :
                    /\ DictHas(row, "load_" \o n \o "_kW")
                    /\ DictGet(row, "load_" \o n \o "_kW") = e.loads[n].kW
                    /\ DictHas(row, "load_" \o n \o "_kvar")
                    /\ DictGet(row, "load_" \o n \o "_kvar") = e.loads[n].kvar
              /\ \A n \in GenNames :
                    /\ DictHas(row, "gen_" \o n \o "_kW")
                    /\ DictGet(row, "gen_" \o n \o "_kW") = e.gens[n].kW
                    /\ DictHas(row, "gen_" \o n \o "_kvar")
                    /\ DictGet(row, "gen_" \o n \o "_kvar") = e.gens[n].kvar
              /\ \A b \in 1..Len(circuit.buses) :
                    /\ DictHas(row, "bus_" \o circuit.buses[b] \o "_Vpu")
                    /\ DictGet(row, "bus_" \o circuit.buses[b] \o "_Vpu") = e.voltages[b]

\* a row of a circuit with two buses at different voltages, one load perturbed
\* and one at its snapshot
C14_Witness ==
    /\ Len(all_data) >= 1
    /\ Len(circuit.buses) = 2
    /\ DictGet(all_data[1], "bus_B1_Vpu") /= DictGet(all_data[1], "bus_B2_Vpu")
    /\ \E n, m \in LoadNames :
          /\ DictGet(all_data[1], "load_" \o n \o "_kW") = DictGet(original_loads, n).kW
          /\ DictGet(all_data[1], "load_" \o m \o "_kW") /= DictGet(original_loads, m).kW

\* the row of a scenario that selects the first names of each category and
\* draws the low end of every range: what one seed of the generator gives
ReferenceRow ==
    LET picked(names, k) == { names[n] : n \in 1..Min(k, Len(names)) }
        loads == [n \in LoadNames |->
                    IF n \in picked(circuit.loads, number_of_loads_to_change)
                    THEN [kW   |-> Scale(CompiledLoadsOf(circuit)[n].kW, load_kw_range[1]),
                          kvar |-> Scale(CompiledLoadsOf(circuit)[n].kvar, load_kvar_range[1])]
                    ELSE CompiledLoadsOf(circuit)[n]]
        gens == [n \in GenNames |->
                    IF n \in picked(circuit.gens, number_of_generators_to_change)
                    THEN [kW   |-> Scale(CompiledGens[n].kW, gen_kw_range[1]),
                          kvar |-> Scale(CompiledGens[n].kvar, gen_kvar_range[1])]
                    ELSE CompiledGens[n]]
    IN  DictUpdate(CollectFeatures(circuit, loads, gens),
                   CollectLabels(circuit.buses, AllBusVmagPu(circuit.buses), 1, << >>))

\* C15 as stated: the run is given a seed, and runs of one configuration over
\* an engine that behaves the same end with the same table. One such run
\* keeps ReferenceRow in every scenario, so every run whose solves all
\* converge does.
C15_SameConfigurationSameTable ==
    pc = "done" /\ (\A n \in 1..Len(solve_log) : solve_log[n].converged) =>
        \A r \in 1..Len(table.rows) : all_data[r] = ReferenceRow

\* the lines printed so far with a given text
Printed(text) == SelectSeq(stdout, LAMBDA l : l.text = text)

\* C16: once "DSS failed to start!" is printed the run has exited and stays
\* there: no snapshot, nothing compiled or written to the engine, no solve, no
\* row and no table.
C16_FailedStartAborts ==
    Printed("DSS failed to start!") /= << >> =>
        /\ pc = "exit"
        /\ ~ ENABLED Next
        /\ original_loads = << >> /\ original_gens = << >>
        /\ dssLoads = << >> /\ dssGens = << >>
        /\ Printed("Running simulation") = << >>
        /\ solve_log = << >>
        /\ all_data = << >>
        /\ table = None

\* the engine failed to start
C16_Witness ==
    /\ pc = "exit"
    /\ stdout[Len(stdout)].text = "DSS failed to start!"

\* C17 as stated: with a selection percentage outside 0..100 no scenario is
\* started: nothing is written to the engine by a reset and no solve is made.
C17_InvalidConfigurationRejected ==
    (\/ percentage_of_loads_to_change \notin 0..100
     \/ percentage_of_generators_to_change \notin 0..100) =>
        /\ Printed("Running simulation") = << >>
        /\ solve_log = << >>

\* C18 as stated: on the example circuit at 50 percent every scenario runs to
\* a row, and every row has exactly two loads at perturbed values within
\* [5, 15] kW and [1.8, 2.2] kvar, the other two at (10, 2), and 1.0 as the
\* voltage of B1, its only label.
C18_ExampleRows ==
    circuit = ExampleCircuit /\ percentage_of_loads_to_change = 50 =>
        /\ pc /= "ValueError"
        /\ \A r \in 1..Len(all_data) :
              LET row == all_data[r]
                  kW(n) == DictGet(row, "load_" \o n \o "_kW")
                  kvar(n) == DictGet(row, "load_" \o n \o "_kvar")
              IN  /\ \E S \in SUBSET LoadNames :
                        /\ Cardinality(S) = 2
                        /\ \A n \in S : /\ 500 <= kW(n) /\ kW(n) <= 1500
                                        /\ 180 <= kvar(n) /\ kvar(n) <= 220
                        /\ \A n \in LoadNames \ S : kW(n) = 1000 /\ kvar(n) = 200
                  /\ Len(row) = 2 * Len(circuit.loads) + 1
                  /\ DictGet(row, "bus_B1_Vpu") = 100

\* C19: a step writes the engine only at setup, in the reset and in the
\* perturbations; perturbations follow the selection that follows the reset;
\* the one solve of a scenario comes after them, writes nothing and is followed
\* by the append step; a row is appended only after a converged solve of the
\* same scenario; the table is saved only once every scenario has been solved.
C19_StepOrder ==
    [][ /\ Len(solve_log) = IF pc = "append" THEN i + 1 ELSE i
        /\ (dssLoads' /= dssLoads \/ dssGens' /= dssGens) =>
              pc \in { "setup", "loop", "modify_loads", "modify_gens" }
        /\ pc' = "sample_loads" => pc = "loop" /\ i < number_of_simulations
        /\ pc' \in { "modify_loads", "modify_gens" } =>
              pc \in { "sample_gens", "modify_loads", "modify_gens" }
        /\ pc' = "collect" => pc \in { "sample_gens", "modify_loads", "modify_gens" }
        /\ solve_log' /= solve_log =>
              /\ pc = "collect" /\ pc' = "append"
              /\ Len(solve_log') = Len(solve_log) + 1
              /\ dssLoads' = dssLoads /\ dssGens' = dssGens
        /\ all_data' /= all_data =>
              /\ pc = "append"
              /\ solve_log[i + 1].converged
              /\ Len(all_data') = Len(all_data) + 1
        /\ pc' /= "done" => table' = table
        /\ pc' = "done" =>
              /\ pc = "loop"
              /\ i = number_of_simulations
              /\ Len(solve_log) = number_of_simulations
      ]_vars

\* a table saved after two scenarios, the second of which gave a row
C19_Witness ==
    /\ pc = "done"
    /\ number_of_simulations = 2
    /\ solve_log[2].converged
    /\ Len(table.rows) >= 1

\* C20: no step shortens the rows or changes a row already there; at every
\* loop boundary the rows are as many as the converged scenarios so far, each
\* a complete row with the load values of its scenario.
C20_RowsAppendOnly ==
    [][ /\ Len(all_data') >= Len(all_data)
        /\ \A r \in 1..Len(all_data) : all_data'[r] = all_data[r]
        /\ pc = "loop" =>
              /\ Len(solve_log) = i
              /\ Len(all_data) = Len(ConvergedScenarios)
              /\ \A r \in 1..Len(all_data) :
                    /\ Range(DictKeys(all_data[r])) = FeatureKeys \cup LabelKeys
                    /\ \A n \in LoadNames :
                          DictGet(all_data[r], "load_" \o n \o "_kvar")
                            = ConvergedScenarios[r].loads[n].kvar
      ]_vars

\* the solve of a second scenario, the engine away from the values the first
\* row keeps
C20_Witness ==
    /\ pc = "collect"
    /\ i = 1
    /\ Len(all_data) = 1
    /\ \E n \in LoadNames :
          dssLoads[n].kW /= DictGet(all_data[1], "load_" \o n \o "_kW")


\* C21: once the trainer has split the columns of a generated table, every
\* column is a feature or a label and none is both; the features are the
\* load and generator columns and the labels are the bus columns, whatever
\* the names of the loads, generators and buses.
C21_ColumnsClassifiedOnce ==
    pc = "trained" =>
        /\ \A c \in Range(table.columns) :
              (c \in Range(features)) /= (c \in Range(labels))
        /\ Range(features) = FeatureKeys
        /\ Range(labels) = LabelKeys

\* a table of a circuit whose load is named after the label prefix and whose
\* bus is named after a feature prefix, split by the trainer
C21_Witness ==
    /\ pc = "trained"
    /\ "bus" \in LoadNames
    /\ "gen" \in Range(circuit.buses)
    /\ "load_bus" \in GenNames
    /\ Len(features) = 6
    /\ Len(labels) = 2


\* the solve of this step, when the step is one
SolvedNow == Len(solve_log') = Len(solve_log) + 1

\* C22: a solve that does not converge ends solve_and_fetch_results in exit()
\* with no data returned, and ends collect_data_for_ml in the return of
\* (None, None) to its caller, at the step where main() goes on (AppendData).
C22_AbortVersusSkip ==
    [][ SolvedNow /\ ~solve_log'[Len(solve_log')].converged =>
          /\ pc = "fetch" =>
                /\ pc' = "exit"
                /\ fetch_data' = None
                /\ Len(SelectSeq(stdout', LAMBDA l : l.text = "Solution did not Converge")) = 1
          /\ pc = "collect" =>
                /\ pc' = "append"
                /\ features' = None
                /\ labels' = None
      ]_vars

\* solve_and_fetch_results has ended in exit() after a solve that did not converge
C22_Witness ==
    /\ pc = "exit"
    /\ Len(solve_log) = 1
    /\ ~solve_log[1].converged
    /\ fetch_data = None

\* C23: the data returned by solve_and_fetch_results has one entry per
\* generator and one per load, in the engine's order, each with the
\* component's own kW and kvar.
C23_EveryComponentFetched ==
    pc = "returned" =>
        /\ DictKeys(fetch_data.Loads) = circuit.loads
        /\ \A n \in LoadNames :
              DictGet(fetch_data.Loads, n) = [kW |-> dssLoads[n].kW, kvar |-> dssLoads[n].kvar]
        /\ DictKeys(fetch_data.Generators) = circuit.gens
        /\ \A n \in GenNames :
              DictGet(fetch_data.Generators, n) = [kW |-> dssGens[n].kW, kvar |-> dssGens[n].kvar]


\* C24: a run whose engine started never stops short of its end: it does not
\* stop inside a scenario, and when it has stopped it has gone through
\* number_of_simulations scenarios, asked for as many solves, and saved the table.
C24_RunsAllScenariosThenSaves ==
    /\ pc /= "ValueError"
    /\ pc = "done" =>
          /\ i = number_of_simulations
          /\ Len(solve_log) = number_of_simulations
          /\ Len(table.rows) = Len(all_data)


\* C30: after add_pu_feedback_layer on at least one bus and at least as many
\* voltages as buses, every index it used lies in 0..len(given_voltages)-1, no
\* exception ended it, and the i-th bus has a marker, green exactly when the
\* voltage read for it lies within the thresholds and red otherwise.
C30_ReadsInsideAndColoured ==
    pc \in { "returned", "IndexError" } =>
        /\ \A r \in 1..Len(pu_feedback.reads) :
              0 <= pu_feedback.reads[r] /\ pu_feedback.reads[r] < Len(given_voltages)
        /\ pu_feedback.raised = None
        /\ Len(pu_feedback.markers) = Len(bus_coords)
        /\ \A n \in 1..Len(pu_feedback.markers) :
              LET m == pu_feedback.markers[n]
              IN  /\ m.bus = bus_coords[n]
                  /\ m.pu = given_voltages[pu_feedback.reads[n] + 1]
                  /\ m.color = IF threshold[1] <= m.pu /\ m.pu <= threshold[2]
                               THEN "green" ELSE "red"


RECURSIVE ChangedByPercent(_, _)
\* the loads after each typed (bus, p) changed that load by p percent, in order
ChangedByPercent(loads, typed) ==
    IF typed = << >> THEN loads
    ELSE ChangedByPercent(
             [loads EXCEPT ![typed[1].bus] = [kW   |-> Scale(@.kW, typed[1].factor),
                                              kvar |-> Scale(@.kvar, typed[1].factor)]],
             Tail(typed))

\* C29: after one of the three load changes of the script, every load typed
\* with p percent has kW and kvar (1 + p/100) times what they were, the
\* other loads are as compiled, and p = 0 leaves a load as it was.
C29_ChangedByTypedPercent ==
    pc = "changed" =>
        dssLoads = ChangedByPercent([n \in LoadNames |-> ScriptLoads[n]], inputs)


\* the staged entries are the committed values and the engine's values
CommittedAndWritten(changes, values, dss) ==
    \A n \in DOMAIN changes :
        /\ values[n] = changes[n]
        /\ dss[n] = [kW |-> changes[n].kw, kvar |-> changes[n].kvar]

\* C25: a step of the editor that is not a run of the simulation (a
\* submission, a global adjustment, a selection) leaves load_values and the
\* engine's loads as they were and asks for no solve; it is temp_changes
\* that such a step writes.
C25_StagingOnly ==
    [][ inputs'.op /= "run" =>
          /\ load_values' = load_values
          /\ dssLoads' = dssLoads
          /\ solve_log' = solve_log
          /\ inputs'.op \in { "submit", "global" } => DOMAIN temp_changes' /= { }
      ]_vars

\* before the first run, a change is staged for L1 that differs from its
\* committed value, and L1 is as compiled in load_values and in the engine
C25_Witness ==
    /\ pc = "idle"
    /\ Len(solve_log) = 0
    /\ "L1" \in DOMAIN temp_changes
    /\ "L2" \in DOMAIN temp_changes
    /\ temp_changes["L1"].kw = 20920
    /\ temp_changes["L2"].kw = 40000
    /\ load_values["L1"].kw = 10456
    /\ dssLoads["L1"].kW = 10456

\* C26: a run of the simulation makes every staged entry the committed value
\* and the engine's value of its load, writes no other load, asks for one
\* solve, and leaves temp_changes empty; a run with nothing staged writes no
\* load.
C26_RunCommitsAndClears ==
    [][ inputs'.op = "run" =>
          /\ CommittedAndWritten(temp_changes, load_values', dssLoads')
          /\ inputs'.written = DOMAIN temp_changes
          /\ \A n \in (DOMAIN load_values) \ (DOMAIN temp_changes) :
                /\ load_values'[n] = load_values[n]
                /\ dssLoads'[n] = dssLoads[n]
          /\ Len(solve_log') = Len(solve_log) + 1
          /\ DOMAIN temp_changes' = { }
      ]_vars

\* what submit_changes stages from the committed values of a load
SubmittedFrom(values, kw_percent, kvar_percent) ==
    [kw |-> StagedValue(Format2(values.kw), kw_percent),
     kvar |-> StagedValue(Format2(values.kvar), kvar_percent)]

\* C27: what a submission stages for the selected load is computed from the
\* load's committed values and the two percentages alone, and what a global
\* adjustment stages for every load is computed from that load's committed
\* values alone, whatever was staged before.
C27_StagedFromCommitted ==
    [][ /\ inputs'.op = "submit" =>
              temp_changes'[inputs'.load] =
                  SubmittedFrom(load_values[inputs'.load],
                                inputs'.kw_percent, inputs'.kvar_percent)
        /\ inputs'.op = "global" =>
              \A n \in DOMAIN load_values :
                  temp_changes'[n] =
                      [load_values[n] EXCEPT
                          !.kw = Adjusted(@, inputs'.kw_checked, inputs'.percent),
                          !.kvar = Adjusted(@, inputs'.kvar_checked, inputs'.percent)]
      ]_vars

\* C28: a run whose solve does not converge still makes the staged entries
\* the committed and the engine's values, still reads the bus voltages and
\* still hands them to add_pu_feedback_layer, which gives one marker per bus
\* when it returns; the editor is left as the converged run leaves it, idle
\* with nothing staged.
C28_NotConvergedRunsOn ==
    [][ inputs'.op = "run" /\ ~inputs'.converged =>
          /\ CommittedAndWritten(temp_changes, load_values', dssLoads')
          /\ given_voltages' = AllBusVmagPu(circuit.buses)
          /\ pu_feedback' = add_pu_feedback_layer(bus_coords, given_voltages', threshold)
          /\ pu_feedback'.raised = None =>
                /\ Len(pu_feedback'.markers) = Len(bus_coords)
                /\ pc' = "idle"
                /\ DOMAIN temp_changes' = { }
          /\ pc' /= "exit"
      ]_vars

\* after a run whose solve did not converge: the staged doubling of L1 is in
\* the engine and committed, and the layer has a marker for each of three buses
C28_Witness ==
    /\ pc = "idle"
    /\ Len(solve_log) = 1
    /\ ~solve_log[1].converged
    /\ dssLoads["L1"].kW = 20920
    /\ load_values["L1"].kw = 20920
    /\ Len(pu_feedback.markers) = 3

====
